---- MODULE Spec2Model ----
(***************************************************************************)
(* The DQI / Clean-Patient-Status engine of the clinical-trial backend     *)
(* (backend/apps/core/management/commands/compute_metrics.py) over the     *)
(* mart tables of backend/apps/metrics/models.py.                          *)
(*                                                                         *)
(* Units.  DecimalField(decimal_places=2) values (percentages, scores) are *)
(* integers counting hundredths: 10000 is 100.00.  Registry weights        *)
(* (decimal_places=3) are integers counting thousandths: 250 is 0.250.     *)
(* A product score * weight therefore counts 1/100000.                     *)
(* A table is a function whose DOMAIN is the set of keys that have a row.  *)
(***************************************************************************)
EXTENDS Integers, Sequences, FiniteSets, TLC

(* ------------------------------ bounds -------------------------------- *)

\* invocations of the command in one behaviour
MaxRuns == 2

\* rows of the Subject table
MaxSubjects == 3

\* largest small study population given to the study rollup on its own
MaxAggSubjects == 10

\* record_event calls in one behaviour
MaxEvents == 3

(* ----------------------------- dimensions ----------------------------- *)

Runs == 1..MaxRuns

SubjectIds == 1..MaxSubjects

\* Study.objects.all() in primary-key order
StudyOrder == <<"S1", "S2">>

Studies == {StudyOrder[i] : i \in 1..Len(StudyOrder)}

\* Site rows in primary-key order; each site belongs to one study
SiteOrder == <<"X", "Y", "Z">>

Sites == {SiteOrder[i] : i \in 1..Len(SiteOrder)}

SiteStudy == [x \in Sites |-> IF x = "Z" THEN "S2" ELSE "S1"]

\* --study_id not given
NoStudyId == "ALL"

\* a --study_id that matches no Study row
UnknownStudyId == "S9"

StudyIdArgs == Studies \cup {NoStudyId}

Metrics == {"sae_unresolved_count", "missing_visits_days_overdue",
            "open_queries_count", "missing_pages_count",
            "non_conformant_count", "sdv_incomplete_pct",
            "pi_signature_incomplete_pct", "coding_uncoded_count",
            "edrr_open_issue_count"}

(* ------------------------------- state -------------------------------- *)

VARIABLES
    subject,       \* Subject table: id -> [study, site]
    facts,         \* fact tables, per subject
    weightConfig,  \* DQIWeightConfig table: metric_name -> [weight, is_active]
    cleanStatus,   \* CleanPatientStatus table, keyed by subject
    subjectScore,  \* DQIScoreSubject table, keyed by subject
    siteScore,     \* DQIScoreSite table, keyed by site
    studyScore,    \* DQIScoreStudy table, keyed by study
    now,           \* database clock, one tick per save()
    pc,            \* per invocation: position in handle()
    arg,           \* per invocation: the --study_id option
    queue,         \* per invocation: studies still to process, current first
    todo,          \* per invocation: subjects left in the current subject loop
    todoSites,     \* per invocation: sites left in the site loop
    weights,       \* per invocation: the dict built at line 157
    writer,        \* history: which invocation last saved each row
    finished,      \* history: (arg, tables) at the end of each invocation
    agg,           \* study rollup applied to bare counts
    transactions,  \* BlockchainTransaction table, rows in insertion order
    auditLog,      \* BlockchainAuditLog table, rows in insertion order
    call,          \* per caller: position in record_event and its locals
    clock          \* timezone.now()

vars == <<subject, facts, weightConfig, cleanStatus, subjectScore, siteScore,
          studyScore, now, pc, arg, queue, todo, todoSites, weights, writer,
          finished, agg, transactions, auditLog, call, clock>>

\* the tables and locals of compute_metrics
engineVars == <<subject, facts, weightConfig, cleanStatus, subjectScore,
                siteScore, studyScore, now, pc, arg, queue, todo, todoSites,
                weights, writer, finished, agg>>

\* the tables and locals of the blockchain service
ledgerVars == <<transactions, auditLog, call, clock>>

(* ------------------------------ helpers ------------------------------- *)

Min(S) == CHOOSE x \in S : \A y \in S : x <= y

RECURSIVE SumOver(_, _)
\* sum of f[k] over the keys k in S
SumOver(f, S) ==
    IF S = {} THEN 0
    ELSE LET k == CHOOSE x \in S : TRUE IN f[k] + SumOver(f, S \ {k})

\* round(num / den) to the nearest integer, ties to the even one:
\* Decimal.__round__ and float round() both round half to even
RoundHalfEven(num, den) ==
    LET q == num \div den
        r == num % den
    IN  IF 2 * r < den THEN q
        ELSE IF 2 * r > den THEN q + 1
        ELSE IF q % 2 = 0 THEN q ELSE q + 1

\* QuerySet.first() on a list of rows, with the caller's "else" value
FirstOr(rows, dflt) == IF rows = <<>> THEN dflt ELSE Head(rows)

\* UpdateOrCreate replacing the row by a new one (created_at starts again)
UpdateOrCreateFresh(table, key, defaults, t) ==
    (key :> (defaults @@ [last_computed |-> t, created_at |-> t])) @@ table

\* objects.update_or_create(key, defaults): one row per key; auto_now sets
\* last_computed on every save, auto_now_add sets created_at on insert only
UpdateOrCreate(table, key, defaults, t) ==
    LET created_at == IF key \in DOMAIN table THEN table[key].created_at ELSE t
        row == defaults @@ [last_computed |-> t, created_at |-> created_at]
    IN  (key :> row) @@ table

(* ------------------- Clean-Gate Evaluator (lines 58-150) --------------- *)

\* sdv_pct / pi_pct: completion_percentage of the first row, else 0
CompletionPct(rows) == FirstOr(rows, 0)

\* sdv_incomplete / pi_incomplete
Incomplete(pct) == pct < 10000

\* edrr_count: total_open_issue_count of the first row, else 0
EdrrCount(rows) == FirstOr(rows, 0)

\* IsClean without the SAE condition
IsCleanNoSae(missing_visits, missing_pages, open_queries, non_conformant, sae_discrepancies, sdv_incomplete, pi_incomplete) ==
    /\ missing_visits = 0
    /\ missing_pages = 0
    /\ open_queries = 0
    /\ non_conformant = 0
    /\ ~sdv_incomplete
    /\ ~pi_incomplete

\* is_clean: all seven gating conditions; coding and EDRR are commented out
IsClean(missing_visits, missing_pages, open_queries, non_conformant, sae_discrepancies, sdv_incomplete, pi_incomplete) ==
    /\ missing_visits = 0
    /\ missing_pages = 0
    /\ open_queries = 0
    /\ non_conformant = 0
    /\ sae_discrepancies = 0
    /\ ~sdv_incomplete
    /\ ~pi_incomplete

Blocker(type, count, severity) ==
    [type |-> type, count |-> count, severity |-> severity]

\* the blockers list; the two percentage entries carry 100 - pct (hundredths)
Blockers(f) ==
    LET sdv_pct == CompletionPct(f.sdv)
        pi_pct == CompletionPct(f.pi)
    IN  (IF f.missing_visits > 0
            THEN <<Blocker("missing_visits", f.missing_visits, "high")>>
            ELSE <<>>)
        \o (IF f.missing_pages > 0
            THEN <<Blocker("missing_pages", f.missing_pages, "medium")>>
            ELSE <<>>)
        \o (IF f.open_queries > 0
            THEN <<Blocker("open_queries", f.open_queries, "medium")>>
            ELSE <<>>)
        \o (IF f.non_conformant > 0
            THEN <<Blocker("non_conformant", f.non_conformant, "medium")>>
            ELSE <<>>)
        \o (IF f.sae_discrepancies > 0
            THEN <<Blocker("sae_discrepancies", f.sae_discrepancies, "critical")>>
            ELSE <<>>)
        \o (IF Incomplete(sdv_pct)
            THEN <<Blocker("sdv_incomplete", 10000 - sdv_pct, "high")>>
            ELSE <<>>)
        \o (IF Incomplete(pi_pct)
            THEN <<Blocker("pi_signature_incomplete", 10000 - pi_pct, "high")>>
            ELSE <<>>)

\* json.dumps(blockers) raises TypeError on a Decimal: the count 100 - pct is
\* a Decimal exactly when pct was read from a row (the "else 0" is an int)
JsonDumpsRaises(f) ==
    \/ f.sdv # <<>> /\ Incomplete(CompletionPct(f.sdv))
    \/ f.pi # <<>> /\ Incomplete(CompletionPct(f.pi))

\* CleanStatusDefaults with the two optional conditions of line 102 enabled
CleanStatusDefaultsAdvisoryGated(f) ==
    LET sdv_pct == CompletionPct(f.sdv)
        pi_pct == CompletionPct(f.pi)
        edrr_count == EdrrCount(f.edrr)
    IN  [is_clean |-> /\ IsClean(f.missing_visits, f.missing_pages,
                                 f.open_queries, f.non_conformant,
                                 f.sae_discrepancies, Incomplete(sdv_pct),
                                 Incomplete(pi_pct))
                      /\ f.coding_uncoded = 0
                      /\ edrr_count = 0,
         has_missing_visits |-> f.missing_visits > 0,
         missing_visits_count |-> f.missing_visits,
         has_missing_pages |-> f.missing_pages > 0,
         missing_pages_count |-> f.missing_pages,
         has_open_queries |-> f.open_queries > 0,
         open_queries_count |-> f.open_queries,
         has_non_conformant |-> f.non_conformant > 0,
         non_conformant_count |-> f.non_conformant,
         has_sae_discrepancies |-> f.sae_discrepancies > 0,
         sae_discrepancy_count |-> f.sae_discrepancies,
         sdv_incomplete |-> Incomplete(sdv_pct),
         sdv_completion_pct |-> sdv_pct,
         pi_signature_incomplete |-> Incomplete(pi_pct),
         pi_signature_completion_pct |-> pi_pct,
         has_coding_backlog |-> f.coding_uncoded > 0,
         coding_uncoded_count |-> f.coding_uncoded,
         has_edrr_issues |-> edrr_count > 0,
         edrr_open_issue_count |-> edrr_count,
         blockers_json |-> Blockers(f)]

\* the defaults dict of CleanPatientStatus.objects.update_or_create
CleanStatusDefaults(f) ==
    LET sdv_pct == CompletionPct(f.sdv)
        pi_pct == CompletionPct(f.pi)
        edrr_count == EdrrCount(f.edrr)
    IN  [is_clean |-> IsClean(f.missing_visits, f.missing_pages,
                              f.open_queries, f.non_conformant,
                              f.sae_discrepancies, Incomplete(sdv_pct),
                              Incomplete(pi_pct)),
         has_missing_visits |-> f.missing_visits > 0,
         missing_visits_count |-> f.missing_visits,
         has_missing_pages |-> f.missing_pages > 0,
         missing_pages_count |-> f.missing_pages,
         has_open_queries |-> f.open_queries > 0,
         open_queries_count |-> f.open_queries,
         has_non_conformant |-> f.non_conformant > 0,
         non_conformant_count |-> f.non_conformant,
         has_sae_discrepancies |-> f.sae_discrepancies > 0,
         sae_discrepancy_count |-> f.sae_discrepancies,
         sdv_incomplete |-> Incomplete(sdv_pct),
         sdv_completion_pct |-> sdv_pct,
         pi_signature_incomplete |-> Incomplete(pi_pct),
         pi_signature_completion_pct |-> pi_pct,
         has_coding_backlog |-> f.coding_uncoded > 0,
         coding_uncoded_count |-> f.coding_uncoded,
         has_edrr_issues |-> edrr_count > 0,
         edrr_open_issue_count |-> edrr_count,
         blockers_json |-> Blockers(f)]

(* --------------------- Subject Scorer (lines 152-220) ------------------ *)

\* ActiveWeights without the is_active filter
ActiveWeightsAll(config) == [m \in DOMAIN config |-> config[m].weight]

\* {w.metric_name: w.weight for w in DQIWeightConfig.objects.filter(is_active=True)}
ActiveWeights(config) ==
    [m \in {k \in DOMAIN config : config[k].is_active} |-> config[m].weight]

\* CappedScore without the cap
UncappedScore(count, factor) == count * factor * 100

\* min(count * factor, 100), as hundredths
CappedScore(count, factor) ==
    (IF count * factor < 100 THEN count * factor ELSE 100) * 100

\* SaeScore with the factor of missing visits
SaeScoreFactorTen(cs) == CappedScore(cs.sae_discrepancy_count, 10)

SaeScore(cs) == CappedScore(cs.sae_discrepancy_count, 25)

MissingVisitsScore(cs) == CappedScore(cs.missing_visits_count, 10)

MissingPagesScore(cs) == CappedScore(cs.missing_pages_count, 5)

OpenQueriesScore(cs) == CappedScore(cs.open_queries_count, 3)

NonConformantScore(cs) == CappedScore(cs.non_conformant_count, 5)

SdvScore(cs) == 10000 - cs.sdv_completion_pct

PiSigScore(cs) == 10000 - cs.pi_signature_completion_pct

CodingScore(cs) == CappedScore(cs.coding_uncoded_count, 2)

EdrrScore(cs) == CappedScore(cs.edrr_open_issue_count, 5)

\* The sum of line 179-189 mixes Decimal operands (registry weights, and the
\* two percentage scores read back from the table) with the float literals
\* of weights.get(name, default): Decimal * float and Decimal + float raise
\* TypeError, so the sum has a value only when no default is used.
CompositeRaises(w) == DOMAIN w # Metrics

\* CompositeDqi with the weight of missing pages taken for open queries
CompositeDqiWrongWeight(cs, w) ==
    SaeScore(cs) * w["sae_unresolved_count"]
    + MissingVisitsScore(cs) * w["missing_visits_days_overdue"]
    + OpenQueriesScore(cs) * w["missing_pages_count"]
    + MissingPagesScore(cs) * w["missing_pages_count"]
    + NonConformantScore(cs) * w["non_conformant_count"]
    + SdvScore(cs) * w["sdv_incomplete_pct"]
    + PiSigScore(cs) * w["pi_signature_incomplete_pct"]
    + CodingScore(cs) * w["coding_uncoded_count"]
    + EdrrScore(cs) * w["edrr_open_issue_count"]

\* composite_dqi, counting 1/100000
CompositeDqi(cs, w) ==
    SaeScore(cs) * w["sae_unresolved_count"]
    + MissingVisitsScore(cs) * w["missing_visits_days_overdue"]
    + OpenQueriesScore(cs) * w["open_queries_count"]
    + MissingPagesScore(cs) * w["missing_pages_count"]
    + NonConformantScore(cs) * w["non_conformant_count"]
    + SdvScore(cs) * w["sdv_incomplete_pct"]
    + PiSigScore(cs) * w["pi_signature_incomplete_pct"]
    + CodingScore(cs) * w["coding_uncoded_count"]
    + EdrrScore(cs) * w["edrr_open_issue_count"]

\* RiskBand with the upper limits included in the lower band
RiskBandInclusiveHigh(x, unit) ==
    IF x <= 25 * unit THEN "Low"
    ELSE IF x <= 50 * unit THEN "Medium"
    ELSE IF x <= 75 * unit THEN "High"
    ELSE "Critical"

\* the if/elif chain on a score x / unit
RiskBand(x, unit) ==
    IF x < 25 * unit THEN "Low"
    ELSE IF x < 50 * unit THEN "Medium"
    ELSE IF x < 75 * unit THEN "High"
    ELSE "Critical"

\* the defaults dict of DQIScoreSubject.objects.update_or_create
SubjectScoreDefaults(cs, w) ==
    [sae_unresolved_score |-> SaeScore(cs),
     missing_visits_score |-> MissingVisitsScore(cs),
     missing_pages_score |-> MissingPagesScore(cs),
     open_queries_score |-> OpenQueriesScore(cs),
     non_conformant_score |-> NonConformantScore(cs),
     sdv_incomplete_score |-> SdvScore(cs),
     pi_signature_score |-> PiSigScore(cs),
     coding_backlog_score |-> CodingScore(cs),
     edrr_issue_score |-> EdrrScore(cs),
     composite_dqi_score |-> RoundHalfEven(CompositeDqi(cs, w), 1000),
     risk_band |-> RiskBand(CompositeDqi(cs, w), 100000)]

(* ------------- Site and Study Aggregators (lines 222-314) -------------- *)

\* Subject.objects.filter(site=site)
SubjectsAtSite(x) == {s \in DOMAIN subject : subject[s].site = x}

\* SubjectsOfStudy reaching the subjects through the sites of the study
SubjectsAtSitesOfStudy(st) == {s \in DOMAIN subject : SiteStudy[subject[s].site] = st}

\* Subject.objects.filter(study=study)
SubjectsOfStudy(st) == {s \in DOMAIN subject : subject[s].study = st}

\* Site.objects.filter(study=study)
SitesOfStudy(st) == {x \in Sites : SiteStudy[x] = st}

\* CleanPatientStatus.objects.filter(subject__in=subjects, is_clean=True).count()
CleanSubjects(S) ==
    Cardinality({s \in S \cap DOMAIN cleanStatus : cleanStatus[s].is_clean})

\* the rows under DQIScoreSubject.objects.filter(subject__in=subjects)
ScoredSubjects(S) == S \cap DOMAIN subjectScore

\* the sum behind Avg('composite_dqi_score'), in hundredths
ScoreSum(S) ==
    SumOver([s \in ScoredSubjects(S) |-> subjectScore[s].composite_dqi_score],
            ScoredSubjects(S))

\* StudyAvg averaging the site rows of the study instead of its subjects
StudyAvgOfSites(study) ==
    [sum |-> SumOver([x \in SitesOfStudy(study) \cap DOMAIN siteScore |-> siteScore[x].composite_dqi_score],
                     SitesOfStudy(study) \cap DOMAIN siteScore),
     n |-> Cardinality(SitesOfStudy(study) \cap DOMAIN siteScore)]

\* lines 288-290: the rows averaged for the study, as (sum, count)
StudyAvg(study) ==
    [sum |-> ScoreSum(SubjectsOfStudy(study)),
     n |-> Cardinality(ScoredSubjects(SubjectsOfStudy(study)))]

\* CleanPct cutting the third decimal off instead of rounding
CleanPctTruncated(clean, total) ==
    IF total > 0 THEN (clean * 10000) \div total ELSE 0

\* round(clean_pct, 2) with clean_pct = clean / total * 100 if total > 0 else 0
CleanPct(clean, total) ==
    IF total > 0 THEN RoundHalfEven(clean * 10000, total) ELSE 0

\* AvgDqi cutting the third decimal off instead of rounding
AvgDqiTruncated(sum, n) == IF n > 0 THEN sum \div n ELSE 0

\* round(avg_dqi, 2) with avg_dqi = Avg(...) over n rows, "or 0" when none
AvgDqi(sum, n) == IF n > 0 THEN RoundHalfEven(sum, n) ELSE 0

\* the risk band of the unrounded avg_dqi
AvgRiskBand(sum, n) == IF n > 0 THEN RiskBand(sum, 100 * n) ELSE RiskBand(0, 1)

\* readiness from the unrounded clean_pct
Readiness(clean, total) ==
    IF total > 0 /\ clean * 100 >= 95 * total THEN "Ready for Database Lock"
    ELSE IF total > 0 /\ clean * 100 >= 80 * total THEN "Ready for Interim Analysis"
    ELSE IF total > 0 /\ clean * 100 >= 50 * total THEN "In Progress"
    ELSE "Not Ready"

\* the defaults dict of DQIScoreSite.objects.update_or_create
SiteScoreDefaults(total_subjects, clean_subjects, sum, n) ==
    [total_subjects |-> total_subjects,
     clean_subjects |-> clean_subjects,
     clean_percentage |-> CleanPct(clean_subjects, total_subjects),
     composite_dqi_score |-> AvgDqi(sum, n),
     risk_band |-> AvgRiskBand(sum, n)]

\* the defaults dict of DQIScoreStudy.objects.update_or_create
StudyScoreDefaults(total_sites, total_subjects, clean_subjects, sum, n) ==
    [total_sites |-> total_sites,
     total_subjects |-> total_subjects,
     clean_subjects |-> clean_subjects,
     clean_percentage |-> CleanPct(clean_subjects, total_subjects),
     composite_dqi_score |-> AvgDqi(sum, n),
     readiness_status |-> Readiness(clean_subjects, total_subjects)]

(* ------------------------- the command's steps ------------------------ *)

\* SelectedStudies without the filter on the option
SelectedStudiesAll(study_id) == StudyOrder

\* Study.objects.filter(study_id=study_id), or .all() without the option
SelectedStudies(study_id) ==
    IF study_id = NoStudyId THEN StudyOrder
    ELSE SelectSeq(StudyOrder, LAMBDA st : st = study_id)

\* the position of a site in SiteOrder (Site.Meta.ordering)
SiteIndex(x) == CHOOSE i \in 1..Len(SiteOrder) : SiteOrder[i] = x

\* the next site of the loop
FirstSite(S) == CHOOSE x \in S : \A y \in S : SiteIndex(x) <= SiteIndex(y)

\* the next subject of a loop: Subject.Meta.ordering is by site, then by id
FirstSubject(S) ==
    CHOOSE s \in S : \A t \in S :
        \/ SiteIndex(subject[s].site) < SiteIndex(subject[t].site)
        \/ subject[s].site = subject[t].site /\ s <= t

Tables == [clean |-> cleanStatus, subject |-> subjectScore,
           site |-> siteScore, study |-> studyScore]

TablesNext == [clean |-> cleanStatus', subject |-> subjectScore',
               site |-> siteScore', study |-> studyScore']

\* history only: the invocation ended (normally or by an uncaught exception)
Finish(r) == finished' = Append(finished, [run |-> r, arg |-> arg[r], tables |-> TablesNext])

\* handle(), lines 33-41: select the studies and enter the first one
Handle(r, study_id) ==
    /\ pc[r] = "idle"
    /\ UNCHANGED ledgerVars
    /\ arg' = [arg EXCEPT ![r] = study_id]
    /\ queue' = [queue EXCEPT ![r] = SelectedStudies(study_id)]
    /\ UNCHANGED <<subject, facts, weightConfig, cleanStatus, subjectScore,
                   siteScore, studyScore, now, todoSites, weights, writer, agg>>
    /\ IF SelectedStudies(study_id) = <<>>
          THEN /\ pc' = [pc EXCEPT ![r] = "done"]
               /\ todo' = todo
               /\ finished' = Append(finished, [run |-> r, arg |-> study_id, tables |-> Tables])
          ELSE /\ pc' = [pc EXCEPT ![r] = "clean"]
               /\ todo' = [todo EXCEPT ![r] = SubjectsOfStudy(Head(SelectedStudies(study_id)))]
               /\ finished' = finished

\* one iteration of the loop of _compute_clean_status (lines 65-148)
CleanStep(r) ==
    /\ pc[r] = "clean"
    /\ UNCHANGED ledgerVars
    /\ todo[r] # {}
    /\ UNCHANGED <<subject, facts, weightConfig, subjectScore, siteScore,
                   studyScore, arg, queue, todoSites, weights, agg>>
    /\ LET s == FirstSubject(todo[r]) IN
       IF JsonDumpsRaises(facts[s])
          THEN /\ pc' = [pc EXCEPT ![r] = "crashed"]
               /\ UNCHANGED <<cleanStatus, now, todo, writer>>
               /\ Finish(r)
          ELSE /\ cleanStatus' = UpdateOrCreate(cleanStatus, s, CleanStatusDefaults(facts[s]), now + 1)
               /\ now' = now + 1
               /\ writer' = [writer EXCEPT !.clean = (s :> r) @@ @]
               /\ todo' = [todo EXCEPT ![r] = @ \ {s}]
               /\ UNCHANGED <<pc, finished>>

\* lines 150-159: the subject loop is over; load the subjects and the weights
ScoreBegin(r) ==
    /\ pc[r] = "clean"
    /\ UNCHANGED ledgerVars
    /\ todo[r] = {}
    /\ pc' = [pc EXCEPT ![r] = "score"]
    /\ todo' = [todo EXCEPT ![r] = SubjectsOfStudy(Head(queue[r]))]
    /\ weights' = [weights EXCEPT ![r] = ActiveWeights(weightConfig)]
    /\ UNCHANGED <<subject, facts, weightConfig, cleanStatus, subjectScore,
                   siteScore, studyScore, now, arg, queue, todoSites, writer,
                   finished, agg>>

\* one iteration of the loop of _compute_dqi_subject (lines 161-218)
ScoreStep(r) ==
    /\ pc[r] = "score"
    /\ UNCHANGED ledgerVars
    /\ todo[r] # {}
    /\ UNCHANGED <<subject, facts, weightConfig, cleanStatus, siteScore,
                   studyScore, arg, queue, todoSites, weights, agg>>
    /\ LET s == FirstSubject(todo[r]) IN
       IF s \notin DOMAIN cleanStatus
          THEN /\ todo' = [todo EXCEPT ![r] = @ \ {s}]
               /\ UNCHANGED <<subjectScore, now, pc, writer, finished>>
       ELSE IF CompositeRaises(weights[r])
          THEN /\ pc' = [pc EXCEPT ![r] = "crashed"]
               /\ UNCHANGED <<subjectScore, now, todo, writer>>
               /\ Finish(r)
          ELSE /\ subjectScore' = UpdateOrCreate(subjectScore, s, SubjectScoreDefaults(cleanStatus[s], weights[r]), now + 1)
               /\ now' = now + 1
               /\ writer' = [writer EXCEPT !.subject = (s :> r) @@ @]
               /\ todo' = [todo EXCEPT ![r] = @ \ {s}]
               /\ UNCHANGED <<pc, finished>>

\* SiteBegin entered straight from the clean-status loop, step 2 left out
SiteBeginEarly(r) ==
    /\ pc[r] = "clean"
    /\ UNCHANGED ledgerVars
    /\ todo[r] = {}
    /\ pc' = [pc EXCEPT ![r] = "site"]
    /\ todoSites' = [todoSites EXCEPT ![r] = SitesOfStudy(Head(queue[r]))]
    /\ UNCHANGED <<subject, facts, weightConfig, cleanStatus, subjectScore,
                   siteScore, studyScore, now, arg, queue, todo, weights,
                   writer, finished, agg>>

\* lines 220-226: the subject loop is over; load the sites of the study
SiteBegin(r) ==
    /\ pc[r] = "score"
    /\ UNCHANGED ledgerVars
    /\ todo[r] = {}
    /\ pc' = [pc EXCEPT ![r] = "site"]
    /\ todoSites' = [todoSites EXCEPT ![r] = SitesOfStudy(Head(queue[r]))]
    /\ UNCHANGED <<subject, facts, weightConfig, cleanStatus, subjectScore,
                   siteScore, studyScore, now, arg, queue, todo, weights,
                   writer, finished, agg>>

\* one iteration of the loop of _compute_dqi_site (lines 228-266)
SiteStep(r) ==
    /\ pc[r] = "site"
    /\ UNCHANGED ledgerVars
    /\ todoSites[r] # {}
    /\ LET x == FirstSite(todoSites[r])
           subjects == SubjectsAtSite(x)
           total_subjects == Cardinality(subjects)
       IN  /\ todoSites' = [todoSites EXCEPT ![r] = @ \ {x}]
           /\ IF total_subjects = 0
                 THEN UNCHANGED <<siteScore, now, writer>>
                 ELSE /\ siteScore' = UpdateOrCreate(siteScore, x,
                                         SiteScoreDefaults(total_subjects, CleanSubjects(subjects),
                                                           ScoreSum(subjects), Cardinality(ScoredSubjects(subjects))),
                                         now + 1)
                      /\ now' = now + 1
                      /\ writer' = [writer EXCEPT !.site = (x :> r) @@ @]
    /\ UNCHANGED <<subject, facts, weightConfig, cleanStatus, subjectScore,
                   studyScore, pc, arg, queue, todo, weights, finished, agg>>

\* _compute_dqi_study (lines 270-314), then the next study of handle()'s
\* loop or the end of the command (line 56)
StudyStep(r) ==
    /\ pc[r] = "site"
    /\ UNCHANGED ledgerVars
    /\ todoSites[r] = {}
    /\ UNCHANGED <<subject, facts, weightConfig, cleanStatus, subjectScore,
                   siteScore, arg, todoSites, weights, agg>>
    /\ LET study == Head(queue[r])
           subjects == SubjectsOfStudy(study)
       IN  /\ studyScore' = UpdateOrCreate(studyScore, study,
                               StudyScoreDefaults(Cardinality(SitesOfStudy(study)), Cardinality(subjects),
                                                  CleanSubjects(subjects), StudyAvg(study).sum,
                                                  StudyAvg(study).n),
                               now + 1)
           /\ now' = now + 1
           /\ writer' = [writer EXCEPT !.study = (study :> r) @@ @]
    /\ queue' = [queue EXCEPT ![r] = Tail(@)]
    /\ IF Tail(queue[r]) = <<>>
          THEN /\ pc' = [pc EXCEPT ![r] = "done"]
               /\ todo' = todo
               /\ Finish(r)
          ELSE /\ pc' = [pc EXCEPT ![r] = "clean"]
               /\ todo' = [todo EXCEPT ![r] = SubjectsOfStudy(Head(Tail(queue[r])))]
               /\ finished' = finished

(* ----------------- the study rollup on bare counts -------------------- *)

AggIdle == [stage |-> "idle", total_subjects |-> 0, clean_subjects |-> 0, row |-> <<>>]

\* lines 277-312 for a study of one site whose subjects that are not clean
\* each carry one SAE discrepancy (composite 6.25) and whose clean subjects
\* score 0
AggStudy ==
    /\ agg.stage = "input"
    /\ UNCHANGED ledgerVars
    /\ agg' = [agg EXCEPT !.stage = "stored",
                          !.row = StudyScoreDefaults(1, agg.total_subjects, agg.clean_subjects,
                                                     625 * (agg.total_subjects - agg.clean_subjects),
                                                     agg.total_subjects)]
    /\ UNCHANGED <<subject, facts, weightConfig, cleanStatus, subjectScore,
                   siteScore, studyScore, now, pc, arg, queue, todo, todoSites,
                   weights, writer, finished>>

(* --------------- the audit chain (blockchain/services.py) -------------- *)

\* the processes that may be inside record_event at the same time
Callers == {1, 2}

\* '0' * 64
ZeroHash == "0000000000000000000000000000000000000000000000000000000000000000"

\* hashlib.sha256(text.encode()).hexdigest(), kept symbolic: the digests of
\* two texts are equal only when the texts are, and no text digests to
\* ZeroHash
Sha256(text) == "sha256(" \o text \o ")"

\* the keys a data_snapshot can have, in the order sort_keys=True puts them
SortedKeys == <<"clean_percentage", "composite_dqi", "study_id", "total_subjects">>

\* one "key": value item of the JSON text; total_subjects is an int, the
\* other values are strings
JsonItem(key, value) ==
    "\"" \o key \o "\": "
         \o (IF key = "total_subjects" THEN ToString(value) ELSE "\"" \o value \o "\"")

RECURSIVE JsonItems(_, _, _)
JsonItems(data, keys, i) ==
    IF i > Len(keys) THEN ""
    ELSE (IF i > 1 THEN ", " ELSE "") \o JsonItem(keys[i], data[keys[i]])
         \o JsonItems(data, keys, i + 1)

\* json.dumps(data, sort_keys=True)
JsonDumps(data) ==
    "{" \o JsonItems(data, SelectSeq(SortedKeys, LAMBDA k : k \in DOMAIN data), 1) \o "}"

\* timezone.now().isoformat()
IsoFormat(t) == "T" \o ToString(t)

\* the calls made on the service: the DQI snapshot of a study (with its
\* entity, as record_dqi_computation passes it) and a bare event without
\* entity_type and entity_id
EventInputs ==
    {[event_type |-> "DQI_COMPUTED", entity_type |-> "Study", entity_id |-> "S1",
      data_snapshot |-> [study_id |-> "S1", total_subjects |-> 3,
                         clean_percentage |-> "66.67", composite_dqi |-> "8.33"]],
     [event_type |-> "DQI_COMPUTED", entity_type |-> "Study", entity_id |-> "S2",
      data_snapshot |-> [study_id |-> "S2", total_subjects |-> 1,
                         clean_percentage |-> "100.0", composite_dqi |-> "0.0"]],
     [event_type |-> "DATABASE_LOCK", entity_type |-> "", entity_id |-> "",
      data_snapshot |-> [study_id |-> "S1"]]}

\* a caller outside record_event
IdleCall == [pc |-> "idle"]

\* order_by('-block_number').first(): no row (None), or a row with the
\* largest block number; among rows with equal block numbers the database
\* decides
LatestBlock(rows) ==
    IF rows = <<>> THEN {<<>>}
    ELSE {<<rows[i]>> : i \in {j \in 1..Len(rows) :
                                  \A k \in 1..Len(rows) : rows[k].block_number <= rows[j].block_number}}

\* line 44
BlockNumber(latest_block) ==
    IF latest_block = <<>> THEN 1 ELSE latest_block[1].block_number + 1

\* PreviousHash linking to the data fingerprint of the latest block
PreviousHashOfData(latest_block) ==
    IF latest_block = <<>> THEN ZeroHash ELSE latest_block[1].data_hash

\* line 47
PreviousHash(latest_block) ==
    IF latest_block = <<>> THEN ZeroHash ELSE latest_block[1].tx_hash

\* lines 50-51
DataHash(data_snapshot) == Sha256(JsonDumps(data_snapshot))

\* lines 55-56; the f-string puts the five parts one after the other
TxHash(block_number, event_type, data_hash, previous_hash, t) ==
    Sha256(ToString(block_number) \o event_type \o data_hash \o previous_hash \o IsoFormat(t))

\* BlockchainTransaction.verify_integrity (models.py, lines 106-117); the
\* JSONField gives back the snapshot it was given (strings and ints)
VerifyIntegrity(tx) == Sha256(JsonDumps(tx.data_snapshot)) = tx.data_hash

\* order_by('block_number'): the orders the database may return the rows in
OrderByBlockNumber(rows) ==
    {[i \in 1..Len(rows) |-> rows[p[i]]] :
        p \in {q \in [1..Len(rows) -> 1..Len(rows)] :
                  /\ \A i, j \in 1..Len(rows) : i # j => q[i] # q[j]
                  /\ \A i, j \in 1..Len(rows) :
                        i < j => rows[q[i]].block_number <= rows[q[j]].block_number}}

\* verify_chain_integrity (lines 160-193) on the rows in the order returned
VerifyChainIntegrity(txs) ==
    LET tampered == {i \in 1..Len(txs) : ~VerifyIntegrity(txs[i])}
        broken == {i \in 2..Len(txs) : txs[i].previous_hash # txs[i - 1].tx_hash}
    IN  [is_valid |-> broken = {} /\ tampered = {},
         total_blocks |-> Len(txs),
         broken_links |-> {[block_number |-> txs[i].block_number,
                            expected_previous |-> txs[i - 1].tx_hash,
                            actual_previous |-> txs[i].previous_hash] : i \in broken},
         tampered_blocks |-> {[block_number |-> txs[i].block_number,
                               tx_hash |-> txs[i].tx_hash] : i \in tampered}]

\* record_event, lines 43-56: read the latest block and compute the hashes;
\* the clock read at line 55 may or may not have moved since it was last read
ReadLatest(c, e) ==
    /\ call[c].pc = "idle"
    /\ Len(transactions) + Cardinality({d \in Callers : call[d].pc # "idle"}) < MaxEvents
    /\ \E t \in {clock, clock + 1} :
       \E latest_block \in LatestBlock(transactions) :
          /\ t <= MaxEvents
          /\ clock' = t
          /\ call' = [call EXCEPT ![c] =
                [pc |-> "create",
                 event |-> e,
                 block_number |-> BlockNumber(latest_block),
                 previous_hash |-> PreviousHash(latest_block),
                 data_hash |-> DataHash(e.data_snapshot),
                 tx_hash |-> TxHash(BlockNumber(latest_block), e.event_type,
                                    DataHash(e.data_snapshot),
                                    PreviousHash(latest_block), t),
                 timestamp |-> t]]
    /\ UNCHANGED <<transactions, auditLog>>
    /\ UNCHANGED engineVars

\* record_event, lines 59-69: the INSERT; tx_hash is unique, so a row with
\* the same tx_hash makes it fail with IntegrityError and the call ends
CreateTransaction(c) ==
    /\ call[c].pc = "create"
    /\ IF \E i \in 1..Len(transactions) : transactions[i].tx_hash = call[c].tx_hash
          THEN /\ call' = [call EXCEPT ![c] = IdleCall]
               /\ transactions' = transactions
          ELSE /\ transactions' = Append(transactions,
                      [tx_hash |-> call[c].tx_hash,
                       block_number |-> call[c].block_number,
                       event_type |-> call[c].event.event_type,
                       data_hash |-> call[c].data_hash,
                       data_snapshot |-> call[c].event.data_snapshot,
                       previous_hash |-> call[c].previous_hash,
                       timestamp |-> call[c].timestamp])
               /\ call' = [call EXCEPT ![c] =
                     IF call[c].event.entity_type # "" /\ call[c].event.entity_id # ""
                        THEN [call[c] EXCEPT !.pc = "audit"]
                        ELSE IdleCall]
    /\ UNCHANGED <<auditLog, clock>>
    /\ UNCHANGED engineVars

\* record_event, lines 72-82: the audit log entry of the entity
CreateAuditLog(c) ==
    /\ call[c].pc = "audit"
    /\ auditLog' = Append(auditLog,
          [transaction |-> call[c].tx_hash,
           entity_type |-> call[c].event.entity_type,
           entity_id |-> call[c].event.entity_id,
           action |-> call[c].event.event_type,
           changes |-> call[c].event.data_snapshot])
    /\ call' = [call EXCEPT ![c] = IdleCall]
    /\ UNCHANGED <<transactions, clock>>
    /\ UNCHANGED engineVars

\* record_event called while no other call is in progress
RecordEvent(c, e) ==
    /\ \A d \in Callers : call[d].pc = "idle"
    /\ ReadLatest(c, e)

(* --------------------------- initial states --------------------------- *)

EmptyTable == [k \in {} |-> 0]

\* the weights loaded by init_dqi_weights, in thousandths
DefaultWeights ==
    [m \in Metrics |->
        IF m = "sae_unresolved_count" THEN 250
        ELSE IF m \in {"missing_visits_days_overdue", "open_queries_count"} THEN 150
        ELSE IF m \in {"missing_pages_count", "non_conformant_count", "sdv_incomplete_pct"} THEN 100
        ELSE 50]

DefaultRegistry == [m \in Metrics |-> [weight |-> DefaultWeights[m], is_active |-> TRUE]]

\* a registry whose weights do not sum to 1
DriftRegistry ==
    [DefaultRegistry EXCEPT !["sae_unresolved_count"].weight = 333,
                            !["coding_uncoded_count"].weight = 125]

\* one entry switched off
InactiveRegistry == [DefaultRegistry EXCEPT !["coding_uncoded_count"].is_active = FALSE]

\* one entry deleted
MissingRegistry == [m \in Metrics \ {"coding_uncoded_count"} |-> DefaultRegistry[m]]

Registries == {DefaultRegistry, DriftRegistry, InactiveRegistry, MissingRegistry, EmptyTable}

\* the fact rows of one subject, field by field
FactSpace ==
    [missing_visits : {0, 3, 10},
     missing_pages : {0, 20},
     open_queries : {0, 2, 34},
     non_conformant : {0, 20},
     sae_discrepancies : {0, 1, 4, 5},
     sdv : {<<>>, <<5000>>, <<10000>>, <<10000, 5000>>},
     pi : {<<>>, <<9999>>, <<10000>>},
     coding_uncoded : {0, 51},
     edrr : {<<>>, <<21>>}]

\* no blocker of any kind, both percentages on file at 100
IdealFacts ==
    [missing_visits |-> 0, missing_pages |-> 0, open_queries |-> 0,
     non_conformant |-> 0, sae_discrepancies |-> 0, sdv |-> <<10000>>,
     pi |-> <<10000>>, coding_uncoded |-> 0, edrr |-> <<>>]

\* a subject with no row in any fact table
NoFacts ==
    [missing_visits |-> 0, missing_pages |-> 0, open_queries |-> 0,
     non_conformant |-> 0, sae_discrepancies |-> 0, sdv |-> <<>>,
     pi |-> <<>>, coding_uncoded |-> 0, edrr |-> <<>>]

\* the fact profiles used where several subjects are rolled up: an ideal
\* subject (clean, composite 0), one with four SAE discrepancies (not clean,
\* composite 25.00) and one whose SDV row stands at 50%
RollupFacts ==
    <<IdealFacts,
      [IdealFacts EXCEPT !.sae_discrepancies = 4],
      [IdealFacts EXCEPT !.sdv = <<5000>>]>>

\* where a subject can be enrolled: the last one is a subject of S2 kept at
\* a site of S1 (the two foreign keys of Subject are independent)
Placements ==
    <<[study |-> "S1", site |-> "X"], [study |-> "S1", site |-> "Y"],
      [study |-> "S2", site |-> "Z"], [study |-> "S2", site |-> "X"]>>

\* nothing computed yet, no invocation started
InitEngine ==
    /\ cleanStatus = EmptyTable
    /\ subjectScore = EmptyTable
    /\ siteScore = EmptyTable
    /\ studyScore = EmptyTable
    /\ now = 0
    /\ pc = [r \in Runs |-> "idle"]
    /\ arg = [r \in Runs |-> NoStudyId]
    /\ queue = [r \in Runs |-> <<>>]
    /\ todo = [r \in Runs |-> {}]
    /\ todoSites = [r \in Runs |-> {}]
    /\ weights = [r \in Runs |-> EmptyTable]
    /\ writer = [clean |-> EmptyTable, subject |-> EmptyTable,
                 site |-> EmptyTable, study |-> EmptyTable]
    /\ finished = <<>>
    /\ transactions = <<>>
    /\ auditLog = <<>>
    /\ call = [c \in Callers |-> IdleCall]
    /\ clock = 0

\* several subjects spread over the studies and sites. Subject ids are
\* interchangeable, so each population is listed once, its subjects in the
\* order of their (placement, facts).
Init ==
    /\ \E p \in [SubjectIds -> 1..Len(Placements)] :
       \E f \in [SubjectIds -> 1..Len(RollupFacts)] :
          /\ \A s, t \in SubjectIds :
                s < t => p[s] < p[t] \/ (p[s] = p[t] /\ f[s] <= f[t])
          /\ subject = [s \in SubjectIds |-> Placements[p[s]]]
          /\ facts = [s \in SubjectIds |-> RollupFacts[f[s]]]
    /\ weightConfig = DefaultRegistry
    /\ agg = AggIdle
    /\ InitEngine

\* one subject of study S1 with any facts of FactSpace, any registry
InitSubject ==
    /\ subject = (1 :> [study |-> "S1", site |-> "X"])
    /\ facts \in [{1} -> FactSpace]
    /\ weightConfig \in Registries
    /\ agg = AggIdle
    /\ InitEngine

\* two subjects of study S1 at site X, default registry
InitConc ==
    /\ subject = [s \in {1, 2} |-> [study |-> "S1", site |-> "X"]]
    /\ facts \in [{1, 2} -> {IdealFacts, [IdealFacts EXCEPT !.sae_discrepancies = 1]}]
    /\ weightConfig = DefaultRegistry
    /\ agg = AggIdle
    /\ InitEngine

\* study populations given to the study rollup: the small ones and 1019
AggTotals == (1..MaxAggSubjects) \cup {1019}

InitAgg ==
    /\ subject = EmptyTable
    /\ facts = EmptyTable
    /\ weightConfig = DefaultRegistry
    /\ \E total \in AggTotals : \E clean \in 0..total :
          agg = [stage |-> "input", total_subjects |-> total,
                 clean_subjects |-> clean, row |-> <<>>]
    /\ InitEngine

(* --------------------------- specifications --------------------------- *)

Step(r) ==
    \/ CleanStep(r)
    \/ ScoreBegin(r)
    \/ ScoreStep(r)
    \/ SiteBegin(r)
    \/ SiteStep(r)
    \/ StudyStep(r)

Active(r) == pc[r] \in {"clean", "score", "site"}

\* invocations are numbered in the order they start
NextRun(r) == pc[r] = "idle" /\ \A q \in Runs : q < r => pc[q] # "idle"

\* the command is run on demand, one invocation after the other
Recompute(r, study_id) ==
    /\ NextRun(r)
    /\ \A q \in Runs : ~Active(q)
    /\ Handle(r, study_id)

\* the command is started while another invocation may still be running
RecomputeConcurrently(r, study_id) ==
    /\ NextRun(r)
    /\ Handle(r, study_id)

Next == \E r \in Runs : (\E study_id \in StudyIdArgs : Recompute(r, study_id)) \/ Step(r)

NextSubject == (\E study_id \in {"S1", UnknownStudyId} : Recompute(1, study_id)) \/ Step(1)

NextConc == \E r \in Runs : RecomputeConcurrently(r, "S1") \/ Step(r)

Spec == Init /\ [][Next]_vars

SpecSubject == InitSubject /\ [][NextSubject]_vars

SpecConc == InitConc /\ [][NextConc]_vars

SpecAgg == InitAgg /\ [][AggStudy]_vars

(* ------------- the Subject table changed through the admin ------------- *)

\* a table without the row of one key
WithoutRow(table, key) == [k \in DOMAIN table \ {key} |-> table[k]]

\* a subject is enrolled at site x of study S1 (admin add view); ids are
\* handed out smallest first, and no invocation of the command is running
AddSubject(x) ==
    /\ \A r \in Runs : ~Active(r)
    /\ UNCHANGED ledgerVars
    /\ SubjectIds \ DOMAIN subject # {}
    /\ LET s == Min(SubjectIds \ DOMAIN subject)
       IN  /\ subject' = (s :> [study |-> SiteStudy[x], site |-> x]) @@ subject
           /\ facts' = (s :> IdealFacts) @@ facts
    /\ UNCHANGED <<weightConfig, cleanStatus, subjectScore, siteScore,
                   studyScore, now, pc, arg, queue, todo, todoSites, weights,
                   writer, finished, agg>>

\* a subject is deleted (admin delete view): its fact rows and, through the
\* CASCADE of their OneToOneField, its CleanPatientStatus and DQIScoreSubject
\* rows go with it; DQIScoreSite and DQIScoreStudy hang on the site and the
\* study and stay
RemoveSubject(s) ==
    /\ \A r \in Runs : ~Active(r)
    /\ UNCHANGED ledgerVars
    /\ s \in DOMAIN subject
    /\ subject' = WithoutRow(subject, s)
    /\ facts' = WithoutRow(facts, s)
    /\ cleanStatus' = WithoutRow(cleanStatus, s)
    /\ subjectScore' = WithoutRow(subjectScore, s)
    /\ writer' = [writer EXCEPT !.clean = WithoutRow(@, s), !.subject = WithoutRow(@, s)]
    /\ UNCHANGED <<weightConfig, siteScore, studyScore, now, pc, arg, queue,
                   todo, todoSites, weights, finished, agg>>

\* an empty Subject table
InitChurn ==
    /\ subject = EmptyTable
    /\ facts = EmptyTable
    /\ weightConfig = DefaultRegistry
    /\ agg = AggIdle
    /\ InitEngine

NextChurn ==
    \/ \E r \in Runs : Recompute(r, "S1") \/ Step(r)
    \/ \E x \in SitesOfStudy("S1") : AddSubject(x)
    \/ \E s \in SubjectIds : RemoveSubject(s)

SpecChurn == InitChurn /\ [][NextChurn]_vars

(* ------------- two subjects that differ in the advisory facts ---------- *)

\* gating facts (ideal, one SAE discrepancy, no SDV row, three missing
\* visits) combined with every coding backlog and reconciliation row
PairFacts ==
    {[g EXCEPT !.coding_uncoded = c, !.edrr = e] :
        g \in {IdealFacts,
               [IdealFacts EXCEPT !.sae_discrepancies = 1],
               [IdealFacts EXCEPT !.sdv = <<>>],
               [IdealFacts EXCEPT !.missing_visits = 3]},
        c \in {0, 51},
        e \in {<<>>, <<21>>}}

\* two subjects of study S1 at site X, each with any facts of PairFacts
InitPair ==
    /\ subject = [s \in {1, 2} |-> [study |-> "S1", site |-> "X"]]
    /\ facts \in [{1, 2} -> PairFacts]
    /\ weightConfig = DefaultRegistry
    /\ agg = AggIdle
    /\ InitEngine

NextPair == Recompute(1, "S1") \/ Step(1)

SpecPair == InitPair /\ [][NextPair]_vars

(* ------------ the weight registry changed through the admin ------------ *)

\* a registry with the entry of one metric switched off
Deactivated(config, metric) == [config EXCEPT ![metric].is_active = FALSE]

\* the inactive entries are deleted (admin delete view), once, between the
\* first invocation of the command and the second
DeleteInactive ==
    /\ \A r \in Runs : ~Active(r)
    /\ UNCHANGED ledgerVars
    /\ Len(finished) = 1
    /\ \E m \in DOMAIN weightConfig : ~weightConfig[m].is_active
    /\ weightConfig' = [m \in {k \in DOMAIN weightConfig : weightConfig[k].is_active}
                           |-> weightConfig[m]]
    /\ UNCHANGED <<subject, facts, cleanStatus, subjectScore, siteScore,
                   studyScore, now, pc, arg, queue, todo, todoSites, weights,
                   writer, finished, agg>>

\* the fact profiles of the subject scored under a changing registry
RegistryFacts ==
    {IdealFacts, NoFacts,
     [IdealFacts EXCEPT !.sae_discrepancies = 4],
     [IdealFacts EXCEPT !.coding_uncoded = 51, !.edrr = <<21>>]}

\* one subject of study S1; a full registry, or one with a single entry
\* switched off
InitRegistry ==
    /\ subject = (1 :> [study |-> "S1", site |-> "X"])
    /\ facts \in [{1} -> RegistryFacts]
    /\ weightConfig \in {DefaultRegistry, DriftRegistry}
                        \cup {Deactivated(R, m) : R \in {DefaultRegistry, DriftRegistry},
                                                  m \in Metrics}
    /\ agg = AggIdle
    /\ InitEngine

NextRegistry ==
    \/ \E r \in Runs : Recompute(r, "S1") \/ Step(r)
    \/ DeleteInactive

SpecRegistry == InitRegistry /\ [][NextRegistry]_vars

(* ------------- a composite that rounds up to a band threshold ---------- *)

\* a registry tuned through the admin: the SAE weight raised to 0.333, the
\* coding and reconciliation weights lowered to 0.013 and 0.004 (sum 1.000)
TunedRegistry ==
    [DefaultRegistry EXCEPT !["sae_unresolved_count"].weight = 333,
                            !["coding_uncoded_count"].weight = 13,
                            !["edrr_open_issue_count"].weight = 4]

\* both percentages on file at 100, a few SAE discrepancies, missing visits,
\* uncoded terms and reconciliation issues
RoundingFacts ==
    {[IdealFacts EXCEPT !.sae_discrepancies = a, !.missing_visits = v,
                        !.coding_uncoded = c, !.edrr = e] :
        a \in {0, 3, 4}, v \in {0, 3}, c \in {0, 1}, e \in {<<>>, <<1>>, <<2>>}}

\* one subject of study S1, default or tuned registry
InitRounding ==
    /\ subject = (1 :> [study |-> "S1", site |-> "X"])
    /\ facts \in [{1} -> RoundingFacts]
    /\ weightConfig \in {DefaultRegistry, TunedRegistry}
    /\ agg = AggIdle
    /\ InitEngine

SpecRounding == InitRounding /\ [][NextPair]_vars

(* ------------------- the audit chain's specifications ------------------ *)

\* an empty log, nothing else on file
InitLedger ==
    /\ subject = EmptyTable
    /\ facts = EmptyTable
    /\ weightConfig = DefaultRegistry
    /\ agg = AggIdle
    /\ InitEngine

\* calls made one after the other
NextLedger ==
    \E c \in Callers :
        \/ \E e \in EventInputs : RecordEvent(c, e)
        \/ CreateTransaction(c)
        \/ CreateAuditLog(c)

\* calls made by two processes, each at its own pace
NextLedgerConc ==
    \E c \in Callers :
        \/ \E e \in EventInputs : ReadLatest(c, e)
        \/ CreateTransaction(c)
        \/ CreateAuditLog(c)

SpecLedger == InitLedger /\ [][NextLedger]_vars

SpecLedgerConc == InitLedger /\ [][NextLedgerConc]_vars

(* ------------------------------ properties ---------------------------- *)

\* C1: every CleanPatientStatus row has is_clean true exactly when its
\* five gating counts are 0 and its two completion percentages are 100;
\* the row's gating values are the ones on file for the subject.
C1_CleanIffAllGatesIdeal ==
    \A s \in DOMAIN cleanStatus :
        LET cs == cleanStatus[s]
            f == facts[s]
        IN  /\ cs.is_clean <=>
                  /\ cs.missing_visits_count = 0
                  /\ cs.missing_pages_count = 0
                  /\ cs.open_queries_count = 0
                  /\ cs.non_conformant_count = 0
                  /\ cs.sae_discrepancy_count = 0
                  /\ cs.sdv_completion_pct = 10000
                  /\ cs.pi_signature_completion_pct = 10000
            /\ cs.missing_visits_count = f.missing_visits
            /\ cs.missing_pages_count = f.missing_pages
            /\ cs.open_queries_count = f.open_queries
            /\ cs.non_conformant_count = f.non_conformant
            /\ cs.sae_discrepancy_count = f.sae_discrepancies
            /\ f.sdv # <<>> => cs.sdv_completion_pct = f.sdv[1]
            /\ f.pi # <<>> => cs.pi_signature_completion_pct = f.pi[1]

\* a subject whose only blocker is one SAE discrepancy is recorded as not
\* clean while its score is in the Low band
C1_Witness ==
    \E s \in DOMAIN cleanStatus \cap DOMAIN subjectScore :
        /\ ~cleanStatus[s].is_clean
        /\ cleanStatus[s].sae_discrepancy_count = 1
        /\ cleanStatus[s].missing_visits_count = 0
        /\ cleanStatus[s].missing_pages_count = 0
        /\ cleanStatus[s].open_queries_count = 0
        /\ cleanStatus[s].non_conformant_count = 0
        /\ cleanStatus[s].sdv_completion_pct = 10000
        /\ cleanStatus[s].pi_signature_completion_pct = 10000
        /\ subjectScore[s].risk_band = "Low"

\* C2: every DQIScoreSubject row's composite_dqi_score is the sum of its nine
\* sub-scores, each times the active registry weight of its metric, to within
\* half a hundredth (rounding to 2 decimals).
C2_CompositeIsWeightedSum ==
    \A s \in DOMAIN subjectScore :
        LET sc == subjectScore[s]
            sum == sc.sae_unresolved_score * weightConfig["sae_unresolved_count"].weight
                   + sc.missing_visits_score * weightConfig["missing_visits_days_overdue"].weight
                   + sc.open_queries_score * weightConfig["open_queries_count"].weight
                   + sc.missing_pages_score * weightConfig["missing_pages_count"].weight
                   + sc.non_conformant_score * weightConfig["non_conformant_count"].weight
                   + sc.sdv_incomplete_score * weightConfig["sdv_incomplete_pct"].weight
                   + sc.pi_signature_score * weightConfig["pi_signature_incomplete_pct"].weight
                   + sc.coding_backlog_score * weightConfig["coding_uncoded_count"].weight
                   + sc.edrr_issue_score * weightConfig["edrr_open_issue_count"].weight
        IN  /\ \A m \in Metrics : m \in DOMAIN weightConfig /\ weightConfig[m].is_active
            /\ 2 * (sc.composite_dqi_score * 1000 - sum) <= 1000
            /\ 2 * (sum - sc.composite_dqi_score * 1000) <= 1000

\* 3 missing visits and 2 open queries, all else ideal, default weights: 5.40
C2_Witness ==
    /\ weightConfig = DefaultRegistry
    /\ \E s \in DOMAIN subjectScore :
        /\ facts[s] = [IdealFacts EXCEPT !.missing_visits = 3, !.open_queries = 2]
        /\ subjectScore[s].missing_visits_score = 3000
        /\ subjectScore[s].open_queries_score = 600
        /\ subjectScore[s].composite_dqi_score = 540

C4_SubScoresNormalized ==
    \A s \in DOMAIN subjectScore :
        LET sc == subjectScore[s]
            cs == cleanStatus[s]
            capped(count, factor) == IF count * factor <= 100 THEN count * factor * 100 ELSE 10000
        IN  /\ \A v \in {sc.sae_unresolved_score, sc.missing_visits_score,
                         sc.missing_pages_score, sc.open_queries_score,
                         sc.non_conformant_score, sc.sdv_incomplete_score,
                         sc.pi_signature_score, sc.coding_backlog_score,
                         sc.edrr_issue_score} : 0 <= v /\ v <= 10000
            /\ sc.sae_unresolved_score = capped(cs.sae_discrepancy_count, 25)
            /\ sc.missing_visits_score = capped(cs.missing_visits_count, 10)
            /\ sc.missing_pages_score = capped(cs.missing_pages_count, 5)
            /\ sc.open_queries_score = capped(cs.open_queries_count, 3)
            /\ sc.non_conformant_score = capped(cs.non_conformant_count, 5)
            /\ sc.coding_backlog_score = capped(cs.coding_uncoded_count, 2)
            /\ sc.edrr_issue_score = capped(cs.edrr_open_issue_count, 5)
            /\ sc.sdv_incomplete_score = 10000 - cs.sdv_completion_pct
            /\ sc.pi_signature_score = 10000 - cs.pi_signature_completion_pct

\* five SAE discrepancies (125 before the cap) and no SDV row (0% complete)
C4_Witness ==
    \E s \in DOMAIN subjectScore :
        /\ facts[s].sae_discrepancies = 5
        /\ facts[s].sdv = <<>>
        /\ subjectScore[s].sae_unresolved_score = 10000
        /\ subjectScore[s].sdv_incomplete_score = 10000

\* C5 (as amended): a DQIScoreSite row is written only for a site with at
\* least one subject, and the row written has total_subjects = the number of
\* subjects at the site, clean_subjects = the number of them whose
\* CleanPatientStatus has is_clean, and clean_percentage = 100 *
\* clean_subjects / total_subjects rounded to 2 decimals.
C5_SiteRollupRounded ==
    [][\A x \in Sites :
          (x \in DOMAIN siteScore' /\ (x \notin DOMAIN siteScore \/ siteScore'[x] # siteScore[x])) =>
             LET row == siteScore'[x]
                 at == {s \in DOMAIN subject : subject[s].site = x}
                 clean == {s \in at \cap DOMAIN cleanStatus : cleanStatus[s].is_clean}
             IN  /\ row.total_subjects = Cardinality(at)
                 /\ row.total_subjects >= 1
                 /\ row.clean_subjects = Cardinality(clean)
                 /\ 2 * (row.clean_percentage * row.total_subjects - 10000 * row.clean_subjects) <= row.total_subjects
                 /\ 2 * (10000 * row.clean_subjects - row.clean_percentage * row.total_subjects) <= row.total_subjects]_vars

\* C5 as stated: clean_percentage is exactly 100 * clean_subjects / total_subjects
C5_SiteCleanPercentageExact ==
    \A x \in DOMAIN siteScore :
        siteScore[x].clean_percentage * siteScore[x].total_subjects = 10000 * siteScore[x].clean_subjects

\* a site of three subjects, one of them clean: 33.33
C5_Witness ==
    \E x \in DOMAIN siteScore :
        /\ siteScore[x].total_subjects = 3
        /\ siteScore[x].clean_subjects = 1
        /\ siteScore[x].clean_percentage = 3333

C7_ReadinessAgreesWithStoredPct ==
    agg.stage = "stored" =>
        agg.row.readiness_status =
            IF agg.row.clean_percentage >= 9500 THEN "Ready for Database Lock"
            ELSE IF agg.row.clean_percentage >= 8000 THEN "Ready for Interim Analysis"
            ELSE IF agg.row.clean_percentage >= 5000 THEN "In Progress"
            ELSE "Not Ready"

\* a table without its last_computed column
WithoutLastComputed(table) ==
    [k \in DOMAIN table |-> [table[k] EXCEPT !.last_computed = 0]]

\* every subject is enrolled at a site of the subject's own study
PlacementConsistent ==
    \A s \in DOMAIN subject : SiteStudy[subject[s].site] = subject[s].study

PassesOnFile(st) ==
    {writer.clean[s] : s \in {t \in DOMAIN writer.clean : subject[t].study = st}}
    \cup {writer.subject[s] : s \in {t \in DOMAIN writer.subject : subject[t].study = st}}
    \cup {writer.site[x] : x \in {y \in DOMAIN writer.site : SiteStudy[y] = st}}
    \cup {writer.study[k] : k \in {j \in DOMAIN writer.study : j = st}}

\* C9: at no time are rows of two different passes on file for one study.
C9_NoHalfUpdatedRollup == \A st \in Studies : Cardinality(PassesOnFile(st)) <= 1

\* C10: once two concurrent invocations for S1 have both ended, the rows on
\* file for S1 all come from one of them.
C10_FinalRecordsFromOnePass ==
    (\A r \in Runs : pc[r] = "done") => Cardinality(PassesOnFile("S1")) <= 1

\* the invocation r takes this step of a pass
Stepping(r) ==
    /\ pc[r] \in {"clean", "score", "site"}
    /\ (todo'[r] # todo[r] \/ todoSites'[r] # todoSites[r] \/ queue'[r] # queue[r])

\* rows of the study st that invocation r has saved
SubjectsSavedBy(r, st) ==
    {s \in DOMAIN subject : /\ subject[s].study = st
                            /\ s \in DOMAIN writer.clean /\ writer.clean[s] = r
                            /\ s \in DOMAIN writer.subject /\ writer.subject[s] = r}

SitesSavedBy(r, st) ==
    {x \in Sites : SiteStudy[x] = st /\ x \in DOMAIN writer.site /\ writer.site[x] = r}

StudySavedBy(r, st) == st \in DOMAIN writer.study /\ writer.study[st] = r

\* C11: within the pass of an invocation for a study, a CleanPatientStatus or
\* DQIScoreSubject row is saved only while no DQIScoreSite and no
\* DQIScoreStudy row of the study has been saved by the pass; a DQIScoreSite
\* row is saved only when every subject of the study has both its rows from
\* the pass and the study row has not been saved; the DQIScoreStudy row is
\* saved only when, besides, every site of the study that has subjects has
\* its row from the pass.
C11_PhasesInOrder ==
    [][\A r \in Runs : Stepping(r) =>
          LET st == Head(queue[r])
              ofStudy == {s \in DOMAIN subject : subject[s].study = st}
              populated == {x \in Sites : SiteStudy[x] = st /\ \E s \in DOMAIN subject : subject[s].site = x}
          IN  /\ (cleanStatus' # cleanStatus \/ subjectScore' # subjectScore) =>
                    SitesSavedBy(r, st) = {} /\ ~StudySavedBy(r, st)
              /\ siteScore' # siteScore =>
                    SubjectsSavedBy(r, st) = ofStudy /\ ~StudySavedBy(r, st)
              /\ studyScore' # studyScore =>
                    /\ SubjectsSavedBy(r, st) = ofStudy
                    /\ SitesSavedBy(r, st) = populated
                    /\ ~StudySavedBy(r, st)]_vars

\* a completed pass for S1 over subjects at both of its sites: every row of a
\* phase is older than every row of the next
C11_Witness ==
    /\ Len(finished) = 1
    /\ pc[1] = "done" /\ arg[1] = "S1"
    /\ {"X", "Y"} \subseteq DOMAIN siteScore
    /\ "S1" \in DOMAIN studyScore
    /\ \A s \in DOMAIN subjectScore : \A x \in DOMAIN siteScore :
          /\ cleanStatus[s].last_computed < siteScore[x].last_computed
          /\ subjectScore[s].last_computed < siteScore[x].last_computed
          /\ siteScore[x].last_computed < studyScore["S1"].last_computed


\* C12: a subject with no row in any fact table is recorded with both
\* completion percentages at 100, is_clean true and an empty blockers list,
\* and its composite score is 0.
C12_NoFactsSubjectIsClean ==
    \A s \in DOMAIN cleanStatus :
        facts[s] = NoFacts =>
            /\ cleanStatus[s].sdv_completion_pct = 10000
            /\ cleanStatus[s].pi_signature_completion_pct = 10000
            /\ cleanStatus[s].is_clean
            /\ cleanStatus[s].blockers_json = <<>>
            /\ s \in DOMAIN subjectScore => subjectScore[s].composite_dqi_score = 0


\* C13: an invocation for a study_id that matches no Study row ends with an
\* error, not with the completion message of line 56, and leaves the four
\* tables as they were (here: empty).
C13_UnknownStudyIsFatal ==
    \A i \in 1..Len(finished) :
        finished[i].arg = UnknownStudyId =>
            /\ pc[finished[i].run] # "done"
            /\ finished[i].tables = [clean |-> EmptyTable, subject |-> EmptyTable,
                                     site |-> EmptyTable, study |-> EmptyTable]


\* C14: an invocation for a study ends normally whatever fault one subject's
\* computation raises: every subject of the study whose own computation
\* raises nothing has its CleanPatientStatus and DQIScoreSubject rows, and
\* the study has its DQIScoreStudy row, when the invocation ends.
C14_FaultySubjectIsSkipped ==
    \A i \in 1..Len(finished) :
        finished[i].arg \in Studies =>
            /\ pc[finished[i].run] = "done"
            /\ finished[i].arg \in DOMAIN finished[i].tables.study
            /\ \A s \in DOMAIN subject :
                  (subject[s].study = finished[i].arg /\ ~JsonDumpsRaises(facts[s])) =>
                      /\ s \in DOMAIN finished[i].tables.clean
                      /\ s \in DOMAIN finished[i].tables.subject


\* C15: whatever metrics lack an active registry entry, an invocation that
\* has recorded a subject's clean status ends normally with the subject
\* scored, its composite being the sum of its sub-scores times the active
\* registry weight of each metric or, for a metric without one, the
\* documented default weight (to within rounding to 2 decimals).
C15_MissingWeightsUseDefaults ==
    \A i \in 1..Len(finished) : \A s \in DOMAIN finished[i].tables.clean :
        LET w == [m \in Metrics |->
                     IF m \in DOMAIN weightConfig /\ weightConfig[m].is_active
                        THEN weightConfig[m].weight
                        ELSE DefaultWeights[m]]
        IN  /\ pc[finished[i].run] = "done"
            /\ s \in DOMAIN finished[i].tables.subject
            /\ LET sc == finished[i].tables.subject[s]
                   sum == sc.sae_unresolved_score * w["sae_unresolved_count"]
                          + sc.missing_visits_score * w["missing_visits_days_overdue"]
                          + sc.open_queries_score * w["open_queries_count"]
                          + sc.missing_pages_score * w["missing_pages_count"]
                          + sc.non_conformant_score * w["non_conformant_count"]
                          + sc.sdv_incomplete_score * w["sdv_incomplete_pct"]
                          + sc.pi_signature_score * w["pi_signature_incomplete_pct"]
                          + sc.coding_backlog_score * w["coding_uncoded_count"]
                          + sc.edrr_issue_score * w["edrr_open_issue_count"]
               IN  /\ 2 * (sc.composite_dqi_score * 1000 - sum) <= 1000
                   /\ 2 * (sum - sc.composite_dqi_score * 1000) <= 1000


\* C16: when an invocation completes, no site of the study it has processed
\* that has no subject has a DQIScoreSite row.
C16_EmptySiteHasNoSiteScore ==
    [][\A r \in Runs :
          (pc[r] = "site" /\ pc'[r] = "done") =>
              \A x \in Sites :
                  (SiteStudy[x] = Head(queue[r]) /\ ~(\E s \in DOMAIN subject : subject[s].site = x)) =>
                      x \notin DOMAIN siteScore']_vars


Stamps(t) ==
    {t.clean[k].last_computed : k \in DOMAIN t.clean}
    \cup {t.subject[k].last_computed : k \in DOMAIN t.subject}
    \cup {t.site[k].last_computed : k \in DOMAIN t.site}
    \cup {t.study[k].last_computed : k \in DOMAIN t.study}

\* C18: when the latest invocation was for one study and has run to its end,
\* every subject of the study has its CleanPatientStatus and DQIScoreSubject
\* row, every site of the study with a subject its DQIScoreSite row and the
\* study its DQIScoreStudy row, each saved by this invocation and after every
\* row of the invocation before it; rows exist for existing subjects only.
C18_StudyFullyOverwritten ==
    \A i \in 1..Len(finished) :
        LET r == finished[i].run
            st == finished[i].arg
            before == IF i > 1 THEN Stamps(finished[i - 1].tables) ELSE {}
        IN  (pc[r] = "done" /\ st \in Studies /\ i = Len(finished) /\ \A q \in Runs : ~Active(q)) =>
               /\ \A s \in DOMAIN subject : subject[s].study = st =>
                     /\ s \in DOMAIN cleanStatus /\ writer.clean[s] = r
                     /\ \A t \in before : cleanStatus[s].last_computed > t
                     /\ s \in DOMAIN subjectScore /\ writer.subject[s] = r
                     /\ \A t \in before : subjectScore[s].last_computed > t
               /\ \A x \in Sites : (SiteStudy[x] = st /\ \E s \in DOMAIN subject : subject[s].site = x) =>
                     /\ x \in DOMAIN siteScore /\ writer.site[x] = r
                     /\ \A t \in before : siteScore[x].last_computed > t
               /\ st \in DOMAIN studyScore /\ writer.study[st] = r
               /\ \A t \in before : studyScore[st].last_computed > t
               /\ DOMAIN cleanStatus \subseteq DOMAIN subject
               /\ DOMAIN subjectScore \subseteq DOMAIN subject

\* S1 recomputed a second time over rows of a first pass: the rows are the
\* first pass's rows (created_at kept), saved again by the second
C18_Witness ==
    /\ Len(finished) = 2
    /\ arg[1] = "S1" /\ arg[2] = "S1" /\ pc[1] = "done" /\ pc[2] = "done"
    /\ writer.study["S1"] = 2
    /\ studyScore["S1"].created_at < studyScore["S1"].last_computed
    /\ \E s \in DOMAIN cleanStatus :
          /\ subject[s].study = "S1"
          /\ writer.clean[s] = 2
          /\ cleanStatus[s].created_at < cleanStatus[s].last_computed


\* C19: with the default weights, every scored subject whose only blocker is
\* one SAE discrepancy has sae score 25, composite 6.25 and band Low while
\* its is_clean is false.
C19_GateAndBandDisagree ==
    \A s \in DOMAIN subjectScore :
        (weightConfig = DefaultRegistry /\ facts[s] = [IdealFacts EXCEPT !.sae_discrepancies = 1]) =>
            /\ subjectScore[s].sae_unresolved_score = 2500
            /\ subjectScore[s].composite_dqi_score = 625
            /\ subjectScore[s].risk_band = "Low"
            /\ ~cleanStatus[s].is_clean

\* such a subject has been scored: Low band on file next to is_clean false
C19_Witness ==
    \E s \in DOMAIN subjectScore :
        /\ weightConfig = DefaultRegistry
        /\ facts[s] = [IdealFacts EXCEPT !.sae_discrepancies = 1]
        /\ subjectScore[s].composite_dqi_score = 625
        /\ subjectScore[s].risk_band = "Low"
        /\ ~cleanStatus[s].is_clean


\* C20: two subjects whose seven gating facts are equal have the same
\* is_clean on file, whatever their coding backlog and reconciliation rows.
C20_GateIgnoresCodingAndEdrr ==
    \A s, t \in DOMAIN cleanStatus :
        (/\ facts[s].missing_visits = facts[t].missing_visits
         /\ facts[s].missing_pages = facts[t].missing_pages
         /\ facts[s].open_queries = facts[t].open_queries
         /\ facts[s].non_conformant = facts[t].non_conformant
         /\ facts[s].sae_discrepancies = facts[t].sae_discrepancies
         /\ facts[s].sdv = facts[t].sdv
         /\ facts[s].pi = facts[t].pi) =>
            cleanStatus[s].is_clean = cleanStatus[t].is_clean

\* two subjects with ideal gating facts, one of them with a coding backlog
\* and reconciliation issues on file: both are clean
C20_Witness ==
    \E s, t \in DOMAIN cleanStatus :
        /\ facts[s] = IdealFacts
        /\ facts[t] = [IdealFacts EXCEPT !.coding_uncoded = 51, !.edrr = <<21>>]
        /\ cleanStatus[t].has_coding_backlog
        /\ cleanStatus[t].has_edrr_issues
        /\ cleanStatus[s].is_clean
        /\ cleanStatus[t].is_clean


\* the types of the entries the seven gating categories put in the list
GatingTypes ==
    {"missing_visits", "missing_pages", "open_queries", "non_conformant",
     "sae_discrepancies", "sdv_incomplete", "pi_signature_incomplete"}

\* C21: in every CleanPatientStatus row, a coding backlog (count > 0) has an
\* entry of its own in the blockers list, with that count and severity
\* medium, and so have open reconciliation issues.
C21_AdvisoryBlockersListed ==
    \A s \in DOMAIN cleanStatus :
        LET cs == cleanStatus[s]
            advisory == {i \in 1..Len(cs.blockers_json) : cs.blockers_json[i].type \notin GatingTypes}
        IN  /\ cs.coding_uncoded_count > 0 =>
                  \E i \in advisory : /\ cs.blockers_json[i].count = cs.coding_uncoded_count
                                      /\ cs.blockers_json[i].severity = "medium"
            /\ cs.edrr_open_issue_count > 0 =>
                  \E i \in advisory : /\ cs.blockers_json[i].count = cs.edrr_open_issue_count
                                      /\ cs.blockers_json[i].severity = "medium"


\* the number of entries of a blockers list whose type is in T
EntriesOf(list, T) == Cardinality({i \in 1..Len(list) : list[i].type \in T})

\* C22: the blockers list of every CleanPatientStatus row has exactly one
\* entry for each of the nine categories that is not at its ideal value and
\* none for a category that is; an entry's severity is critical for SAE
\* discrepancies, high for missing visits and the two incomplete
\* percentages, medium for every other type.
C22_OneEntryPerActiveBlocker ==
    \A s \in DOMAIN cleanStatus :
        LET cs == cleanStatus[s]
            list == cs.blockers_json
            one(active, type) == EntriesOf(list, {type}) = IF active THEN 1 ELSE 0
        IN  /\ one(cs.missing_visits_count > 0, "missing_visits")
            /\ one(cs.missing_pages_count > 0, "missing_pages")
            /\ one(cs.open_queries_count > 0, "open_queries")
            /\ one(cs.non_conformant_count > 0, "non_conformant")
            /\ one(cs.sae_discrepancy_count > 0, "sae_discrepancies")
            /\ one(cs.sdv_completion_pct < 10000, "sdv_incomplete")
            /\ one(cs.pi_signature_completion_pct < 10000, "pi_signature_incomplete")
            /\ Len(list) - EntriesOf(list, GatingTypes) =
                  (IF cs.coding_uncoded_count > 0 THEN 1 ELSE 0)
                  + (IF cs.edrr_open_issue_count > 0 THEN 1 ELSE 0)
            /\ \A i \in 1..Len(list) :
                  list[i].severity =
                     IF list[i].type = "sae_discrepancies" THEN "critical"
                     ELSE IF list[i].type \in {"missing_visits", "sdv_incomplete", "pi_signature_incomplete"} THEN "high"
                     ELSE "medium"


RowUnchanged(before, after, k) ==
    /\ (k \in DOMAIN after) = (k \in DOMAIN before)
    /\ k \in DOMAIN before => after[k] = before[k]

\* C24: every step of an invocation for one study S leaves the
\* CleanPatientStatus and DQIScoreSubject rows of the subjects of every other
\* study, the DQIScoreSite rows of the sites of every other study and the
\* DQIScoreStudy row of every other study as they were, and changes no fact
\* row, no Subject row and no weight entry.
C24_OnlyRowsOfTheStudyChange ==
    [][\A r \in Runs : \A S \in Studies :
          (Active(r) /\ arg[r] = S) =>
             /\ facts' = facts
             /\ subject' = subject
             /\ weightConfig' = weightConfig
             /\ \A s \in DOMAIN subject : subject[s].study # S =>
                   /\ RowUnchanged(cleanStatus, cleanStatus', s)
                   /\ RowUnchanged(subjectScore, subjectScore', s)
             /\ \A x \in Sites : SiteStudy[x] # S => RowUnchanged(siteScore, siteScore', x)
             /\ \A st \in Studies : st # S => RowUnchanged(studyScore, studyScore', st)]_vars

\* S2 was computed, then S1 was recomputed to its end: the rows of S2 are
\* those the first invocation left, next to rows of S1 saved by the second
C24_Witness ==
    /\ Len(finished) = 2
    /\ finished[1].arg = "S2" /\ finished[2].arg = "S1"
    /\ pc[finished[1].run] = "done" /\ pc[finished[2].run] = "done"
    /\ "S1" \in DOMAIN studyScore /\ writer.study["S1"] = finished[2].run
    /\ "S2" \in DOMAIN studyScore /\ studyScore["S2"] = finished[1].tables.study["S2"]
    /\ \E s \in DOMAIN subjectScore :
          /\ subject[s].study = "S2"
          /\ subjectScore[s] = finished[1].tables.subject[s]
          /\ cleanStatus[s] = finished[1].tables.clean[s]
    /\ \E s \in DOMAIN subjectScore : subject[s].study = "S1" /\ writer.subject[s] = finished[2].run
    /\ \E x \in DOMAIN siteScore : SiteStudy[x] = "S2" /\ siteScore[x] = finished[1].tables.site[x]


\* C25: in every DQIScoreSubject and DQIScoreSite row the stored risk_band is
\* the band of the stored composite_dqi_score (the value rounded to two
\* decimals) under the thresholds [0,25) Low, [25,50) Medium, [50,75) High,
\* [75,inf) Critical; no row holds 25.00 with Low, 50.00 with Medium or 75.00
\* with High.
C25_BandOfStoredComposite ==
    LET band(x) == IF x < 2500 THEN "Low"
                   ELSE IF x < 5000 THEN "Medium"
                   ELSE IF x < 7500 THEN "High"
                   ELSE "Critical"
    IN  /\ \A s \in DOMAIN subjectScore :
              subjectScore[s].risk_band = band(subjectScore[s].composite_dqi_score)
        /\ \A x \in DOMAIN siteScore :
              siteScore[x].risk_band = band(siteScore[x].composite_dqi_score)


\* C26: in every CleanPatientStatus row, is_clean is true exactly when the
\* blockers list is empty, and each of the nine flags (has_missing_visits,
\* has_missing_pages, has_open_queries, has_non_conformant,
\* has_sae_discrepancies, sdv_incomplete, pi_signature_incomplete,
\* has_coding_backlog, has_edrr_issues) is true exactly when the list has an
\* entry for its category.
C26_FlagsMirrorBlockersList ==
    \A s \in DOMAIN cleanStatus :
        LET cs == cleanStatus[s]
            list == cs.blockers_json
            listed(type) == EntriesOf(list, {type}) > 0
            advisory(count) == \E i \in 1..Len(list) : /\ list[i].type \notin GatingTypes
                                                       /\ list[i].count = count
        IN  /\ cs.is_clean <=> list = <<>>
            /\ cs.has_missing_visits <=> listed("missing_visits")
            /\ cs.has_missing_pages <=> listed("missing_pages")
            /\ cs.has_open_queries <=> listed("open_queries")
            /\ cs.has_non_conformant <=> listed("non_conformant")
            /\ cs.has_sae_discrepancies <=> listed("sae_discrepancies")
            /\ cs.sdv_incomplete <=> listed("sdv_incomplete")
            /\ cs.pi_signature_incomplete <=> listed("pi_signature_incomplete")
            /\ cs.has_coding_backlog <=> advisory(cs.coding_uncoded_count)
            /\ cs.has_edrr_issues <=> advisory(cs.edrr_open_issue_count)


\* C27: when the latest invocation was for one study and has run to its end,
\* the total_subjects of the study's DQIScoreStudy row is the sum of the
\* total_subjects of the DQIScoreSite rows of the study's sites, and its
\* clean_subjects the sum of their clean_subjects, wherever the subjects are
\* enrolled.
C27_StudyTotalsAreSiteTotals ==
    \A i \in 1..Len(finished) :
        LET r == finished[i].run
            st == finished[i].arg
            rows == SitesOfStudy(st) \cap DOMAIN siteScore
        IN  (pc[r] = "done" /\ st \in Studies /\ i = Len(finished) /\ \A q \in Runs : ~Active(q)) =>
               /\ studyScore[st].total_subjects =
                     SumOver([x \in rows |-> siteScore[x].total_subjects], rows)
               /\ studyScore[st].clean_subjects =
                     SumOver([x \in rows |-> siteScore[x].clean_subjects], rows)


\* C28: with the default weights, every scored subject stored as clean has
\* its seven gating sub-scores at 0 (only the coding and reconciliation
\* sub-scores can be above 0), a composite of at most 10.00 and the band
\* Low; a subject in the band Medium, High or Critical is stored as not
\* clean.
C28_CleanSubjectIsLow ==
    \A s \in DOMAIN subjectScore \cap DOMAIN cleanStatus :
        weightConfig = DefaultRegistry =>
            LET sc == subjectScore[s] IN
            /\ cleanStatus[s].is_clean =>
                  /\ sc.sae_unresolved_score = 0
                  /\ sc.missing_visits_score = 0
                  /\ sc.missing_pages_score = 0
                  /\ sc.open_queries_score = 0
                  /\ sc.non_conformant_score = 0
                  /\ sc.sdv_incomplete_score = 0
                  /\ sc.pi_signature_score = 0
                  /\ sc.composite_dqi_score <= 1000
                  /\ sc.risk_band = "Low"
            /\ sc.risk_band \in {"Medium", "High", "Critical"} => ~cleanStatus[s].is_clean

\* a clean subject with 51 uncoded terms and 21 reconciliation issues: both
\* advisory sub-scores at 100, composite exactly 10.00, band Low
C28_Witness ==
    \E s \in DOMAIN subjectScore :
        /\ weightConfig = DefaultRegistry
        /\ cleanStatus[s].is_clean
        /\ subjectScore[s].coding_backlog_score = 10000
        /\ subjectScore[s].edrr_issue_score = 10000
        /\ subjectScore[s].composite_dqi_score = 1000
        /\ subjectScore[s].risk_band = "Low"


\* C29: after record_event calls made one after the other on an empty log,
\* the block numbers of the n transactions are exactly 1..n in the order
\* they were recorded, the first transaction's previous_hash is 64 zeros,
\* every later transaction's previous_hash is the tx_hash of the transaction
\* with the preceding block number, every data_hash is the hash of its
\* data_snapshot, and verify_chain_integrity reports is_valid true with no
\* broken link and no tampered block.
C29_SequentialChainWellFormed ==
    /\ \A i \in 1..Len(transactions) : transactions[i].block_number = i
    /\ \A i \in 1..Len(transactions) :
          transactions[i].previous_hash =
             IF i = 1 THEN ZeroHash ELSE transactions[i - 1].tx_hash
    /\ \A i \in 1..Len(transactions) :
          transactions[i].data_hash = Sha256(JsonDumps(transactions[i].data_snapshot))
    /\ \A txs \in OrderByBlockNumber(transactions) :
          /\ VerifyChainIntegrity(txs).is_valid
          /\ VerifyChainIntegrity(txs).total_blocks = Len(transactions)
          /\ VerifyChainIntegrity(txs).broken_links = {}
          /\ VerifyChainIntegrity(txs).tampered_blocks = {}

\* three calls have returned: the same DQI snapshot recorded twice within
\* one clock reading, then a bare event; blocks 1, 2, 3, linked
C29_Witness ==
    /\ \A c \in Callers : call[c].pc = "idle"
    /\ Len(transactions) = 3
    /\ transactions[1].data_snapshot = transactions[2].data_snapshot
    /\ transactions[1].timestamp = transactions[2].timestamp
    /\ transactions[3].event_type = "DATABASE_LOCK"
    /\ transactions[3].block_number = 3
    /\ transactions[3].previous_hash = transactions[2].tx_hash
    /\ transactions[2].previous_hash = transactions[1].tx_hash
    /\ transactions[1].tx_hash # transactions[2].tx_hash
    /\ Len(auditLog) = 2

\* C30: when two record_event calls run concurrently, whatever the order of
\* their read-latest-block and create-transaction steps, no two transactions
\* have the same block_number or the same previous_hash, and
\* verify_chain_integrity reports is_valid true.
C30_ConcurrentCallsDoNotFork ==
    /\ \A i, j \in 1..Len(transactions) :
          i # j => /\ transactions[i].block_number # transactions[j].block_number
                   /\ transactions[i].previous_hash # transactions[j].previous_hash
    /\ \A txs \in OrderByBlockNumber(transactions) : VerifyChainIntegrity(txs).is_valid

====
